---- MODULE Spec2Model ----
(***************************************************************************)
(* Bone-name matching engine of the retargeting pipeline:                  *)
(*   BoneAutoMapper (normalize_bone_name, calculate_similarity,            *)
(*   levenshtein_distance, find_best_match, auto_map_bones) and            *)
(*   MixamoMapper (BONE_MAP, map_mixamo_bones).                            *)
(*                                                                         *)
(* A bone name handled by BoneAutoMapper is a sequence of one-character    *)
(* strings, so that the regular expressions and the edit distance act on   *)
(* characters. A bone name handled by MixamoMapper is only ever compared   *)
(* for exact equality and is a plain string.                               *)
(* A score is a pair <<numerator, denominator>>: the exact rational value  *)
(* of the expression the code evaluates in floating point; a denominator   *)
(* of 0 stands for NaN (0/0). The double-precision values compare with 0.6 *)
(* as the rationals do, and with one another as the rationals do except    *)
(* where a containment score and an edit-distance score are equal as       *)
(* rationals and round differently (first at length 9: 0.8 + (4/9) * 0.2   *)
(* against 1 - 1/9); no two names of the bone lists below score that way.  *)
(***************************************************************************)
EXTENDS Integers, Sequences, FiniteSets, TLC

VARIABLES fn, args, ret, pc

vars == <<fn, args, ret, pc>>

(***************************************************************************)
(* Bounds of the model.                                                    *)
(***************************************************************************)
\* number of tokens concatenated into a bone name given to normalize_bone_name
MaxTokens == 3
\* length of the strings given to calculate_similarity / levenshtein_distance
MaxLen == 3
\* number of bones of the source skeleton
MaxSourceBones == 2
\* number of bones of the target skeleton
MaxTargetBones == 2

(***************************************************************************)
(* Characters and strings.                                                 *)
(***************************************************************************)
UpperCase ==
  <<"A","B","C","D","E","F","G","H","I","J","K","L","M",
    "N","O","P","Q","R","S","T","U","V","W","X","Y","Z">>

LowerCase ==
  <<"a","b","c","d","e","f","g","h","i","j","k","l","m",
    "n","o","p","q","r","s","t","u","v","w","x","y","z">>

Digits == {"0","1","2","3","4","5","6","7","8","9"}

\* \w of a JavaScript regular expression: [A-Za-z0-9_]
IsWordChar(c) ==
  \/ \E i \in DOMAIN UpperCase : UpperCase[i] = c
  \/ \E i \in DOMAIN LowerCase : LowerCase[i] = c
  \/ c \in Digits
  \/ c = "_"

\* the characters of the class [-.\s]
IsSeparator(c) == c \in {"-", ".", " ", "\t"}

StartsWith(s, p) == Len(s) >= Len(p) /\ SubSeq(s, 1, Len(p)) = p

EndsWith(s, p) == Len(s) >= Len(p) /\ SubSeq(s, Len(s) - Len(p) + 1, Len(s)) = p

Drop(s, n) == SubSeq(s, n + 1, Len(s))

\* String.prototype.includes
includes(s, sub) ==
  \E i \in 0..(Len(s) - Len(sub)) : SubSeq(s, i + 1, i + Len(sub)) = sub

\* String.prototype.toLowerCase
LowerChar(c) ==
  IF \E i \in DOMAIN UpperCase : UpperCase[i] = c
  THEN LowerCase[CHOOSE i \in DOMAIN UpperCase : UpperCase[i] = c]
  ELSE c

toLowerCase(s) == IF s = <<>> THEN <<>> ELSE [i \in 1..Len(s) |-> LowerChar(s[i])]

(***************************************************************************)
(* normalize_bone_name, one operator per statement.                        *)
(***************************************************************************)
\* normalized.replace(/[-.\s]/g, '_')
replace_separators(s) ==
  IF s = <<>> THEN <<>>
  ELSE [i \in 1..Len(s) |-> IF IsSeparator(s[i]) THEN "_" ELSE s[i]]

\* the alternatives of /^(mixamorig|mixamorig_|rig_|bone_|jnt_|joint_)/i in the
\* order the regular expression tries them
COMMON_PREFIXES ==
  << <<"m","i","x","a","m","o","r","i","g">>,
     <<"m","i","x","a","m","o","r","i","g","_">>,
     <<"r","i","g","_">>,
     <<"b","o","n","e","_">>,
     <<"j","n","t","_">>,
     <<"j","o","i","n","t","_">>
  >>

\* normalized.replace(/^(mixamorig|...)/i, ''): the first alternative that
\* matches at the start of the string is the one removed, once. The i flag
\* makes the comparison case-insensitive.
remove_common_prefix(s) ==
  LET low == toLowerCase(s)
      hits == {i \in DOMAIN COMMON_PREFIXES : StartsWith(low, COMMON_PREFIXES[i])}
  IN IF hits = {} THEN s
     ELSE LET first == CHOOSE i \in hits : \A k \in hits : i <= k
          IN Drop(s, Len(COMMON_PREFIXES[first]))

\* \b at position p: between the characters p-1 and p of s
IsWordAt(s, k) == k \in 1..Len(s) /\ IsWordChar(s[k])

WordBoundary(s, p) == IsWordAt(s, p - 1) # IsWordAt(s, p)

MatchesWordAt(s, word, i) ==
  /\ i + Len(word) - 1 <= Len(s)
  /\ SubSeq(s, i, i + Len(word) - 1) = word
  /\ WordBoundary(s, i)
  /\ WordBoundary(s, i + Len(word))

\* normalized.replace(/\bword\b/g, repl), scanning s from position i
RECURSIVE replace_whole_word(_, _, _, _)
replace_whole_word(s, word, repl, i) ==
  IF i > Len(s) THEN <<>>
  ELSE IF MatchesWordAt(s, word, i)
       THEN repl \o replace_whole_word(s, word, repl, i + Len(word))
       ELSE <<s[i]>> \o replace_whole_word(s, word, repl, i + 1)

\* normalized.replace(/^p/g, repl)
replace_leading(s, p, repl) ==
  IF StartsWith(s, p) THEN repl \o Drop(s, Len(p)) ELSE s

\* replace_trailing with the $ anchor forgotten: the first occurrence of p,
\* wherever it is, is replaced
replace_trailing_unanchored(s, p, repl) ==
  LET hits == {i \in 1..(Len(s) - Len(p) + 1) : SubSeq(s, i, i + Len(p) - 1) = p}
  IN IF hits = {} THEN s
     ELSE LET first == CHOOSE i \in hits : \A k \in hits : i <= k
          IN SubSeq(s, 1, first - 1) \o repl \o Drop(s, first + Len(p) - 1)

\* normalized.replace(/p$/g, repl)
replace_trailing(s, p, repl) ==
  IF EndsWith(s, p) THEN SubSeq(s, 1, Len(s) - Len(p)) \o repl ELSE s

\* the six statements that standardize the left/right notation
standardize_left_right(s) ==
  LET s1 == replace_whole_word(s, <<"l","e","f","t">>, <<"l">>, 1)
      s2 == replace_whole_word(s1, <<"r","i","g","h","t">>, <<"r">>, 1)
      s3 == replace_leading(s2, <<"l","_">>, <<"l","e","f","t","_">>)
      s4 == replace_leading(s3, <<"r","_">>, <<"r","i","g","h","t","_">>)
      s5 == replace_trailing(s4, <<"_","l">>, <<"_","l","e","f","t">>)
      s6 == replace_trailing(s5, <<"_","r">>, <<"_","r","i","g","h","t">>)
  IN s6

normalize_bone_name(bone_name) ==
  standardize_left_right(
    remove_common_prefix(
      replace_separators(
        toLowerCase(bone_name))))

(***************************************************************************)
(* levenshtein_distance: the matrix the code fills. Row 0 holds 0..len2;   *)
(* every other row starts as [i] and grows by one cell per inner step.     *)
(***************************************************************************)
Min(a, b) == IF a <= b THEN a ELSE b

Max(a, b) == IF a >= b THEN a ELSE b

\* the two initialisation loops
init_matrix(len1, len2) ==
  [i \in 0..len1 |-> IF i = 0 THEN [j \in 0..len2 |-> j] ELSE (0 :> i)]

\* matrix_cell with the substitution cost fixed at 1
matrix_cell_cost_one(matrix, str1, str2, i, j) ==
  Min(Min(matrix[i - 1][j] + 1,
          matrix[i][j - 1] + 1),
      matrix[i - 1][j - 1] + 1)

\* the body of the inner loop: the value stored in matrix[i][j]
matrix_cell(matrix, str1, str2, i, j) ==
  LET cost == IF str1[i] = str2[j] THEN 0 ELSE 1
  IN Min(Min(matrix[i - 1][j] + 1,       \* deletion
             matrix[i][j - 1] + 1),      \* insertion
         matrix[i - 1][j - 1] + cost)    \* substitution

\* the inner loop of row i, from column j on
RECURSIVE fill_row(_, _, _, _, _)
fill_row(matrix, str1, str2, i, j) ==
  IF j > Len(str2) \/ i \notin DOMAIN matrix   \* row i exists: matrix[i] = [i]
  THEN matrix
  ELSE fill_row(
         [matrix EXCEPT ![i] = @ @@ (j :> matrix_cell(matrix, str1, str2, i, j))],
         str1, str2, i, j + 1)

\* the outer loop, from row i on
RECURSIVE fill_matrix(_, _, _, _)
fill_matrix(matrix, str1, str2, i) ==
  IF i > Len(str1) THEN matrix
  ELSE fill_matrix(fill_row(matrix, str1, str2, i, 1), str1, str2, i + 1)

levenshtein_distance(str1, str2) ==
  LET len1 == Len(str1)
      len2 == Len(str2)
      matrix == fill_matrix(init_matrix(len1, len2), str1, str2, 1)
  IN matrix[len1][len2]

(***************************************************************************)
(* calculate_similarity. Scores are exact rationals <<num, den>>.          *)
(***************************************************************************)
IsNaN(x) == x[2] = 0

\* x > y, x >= y on scores (every comparison with NaN is false)
ScoreGT(x, y) == ~IsNaN(x) /\ ~IsNaN(y) /\ x[1] * y[2] > y[1] * x[2]

ScoreGE(x, y) == ~IsNaN(x) /\ ~IsNaN(y) /\ x[1] * y[2] >= y[1] * x[2]

ScoreEQ(x, y) == ~IsNaN(x) /\ ~IsNaN(y) /\ x[1] * y[2] = y[1] * x[2]

\* the tier the if-chain of calculate_similarity takes
similarity_tier(name1, name2) ==
  IF name1 = name2 THEN "exact"
  ELSE IF includes(name1, name2) \/ includes(name2, name1) THEN "contains"
  ELSE "levenshtein"

\* calculate_similarity with the containment test in one direction only
calculate_similarity_one_way(name1, name2) ==
  IF name1 = name2
  THEN <<1, 1>>
  ELSE IF includes(name1, name2)
  THEN <<4 * Len(name1) + Len(name2), 5 * Len(name1)>>
  ELSE LET distance == levenshtein_distance(name1, name2)
           max_length == Max(Len(name1), Len(name2))
       IN <<max_length - distance, max_length>>

\* calculate_similarity without the exact-match tier
calculate_similarity_no_exact(name1, name2) ==
  IF includes(name1, name2) \/ includes(name2, name1)
  THEN LET longer == Max(Len(name1), Len(name2))
           shorter == Min(Len(name1), Len(name2))
       IN <<4 * longer + shorter, 5 * longer>>
  ELSE LET distance == levenshtein_distance(name1, name2)
           max_length == Max(Len(name1), Len(name2))
       IN <<max_length - distance, max_length>>

calculate_similarity(name1, name2) ==
  IF name1 = name2
  THEN <<1, 1>>
  ELSE IF includes(name1, name2) \/ includes(name2, name1)
  THEN LET longer == Max(Len(name1), Len(name2))
           shorter == Min(Len(name1), Len(name2))
       IN \* 0.8 + (shorter / longer) * 0.2
          <<4 * longer + shorter, 5 * longer>>
  ELSE LET distance == levenshtein_distance(name1, name2)
           max_length == Max(Len(name1), Len(name2))
       IN \* 1 - (distance / max_length)
          <<max_length - distance, max_length>>

(***************************************************************************)
(* Map<string, string>: the entries in insertion order.                    *)
(***************************************************************************)
EmptyMap == <<>>

\* Map.prototype.set: a key already present keeps its position
MapSet(m, k, v) ==
  IF \E i \in DOMAIN m : m[i].key = k
  THEN [i \in DOMAIN m |-> IF m[i].key = k THEN [key |-> k, value |-> v] ELSE m[i]]
  ELSE Append(m, [key |-> k, value |-> v])

MapKeys(m) == {m[i].key : i \in DOMAIN m}

MapGet(m, k) == m[CHOOSE i \in DOMAIN m : m[i].key = k].value

Entries(m) == {m[i] : i \in DOMAIN m}

Range(seq) == {seq[i] : i \in DOMAIN seq}

(***************************************************************************)
(* find_best_match and auto_map_bones. "string | null" is <<>> for null    *)
(* and <<name>> for a name.                                                *)
(***************************************************************************)
\* the acceptance threshold 0.6
MIN_SCORE == <<3, 5>>

\* find_best_match_from without the "score >= 0.6" conjunct
RECURSIVE find_best_match_no_threshold(_, _, _, _, _)
find_best_match_no_threshold(normalized_target, source_bones, i, best_match, best_score) ==
  IF i > Len(source_bones) THEN best_match
  ELSE LET source_bone == source_bones[i]
           score == calculate_similarity(normalized_target,
                                         normalize_bone_name(source_bone))
       IN IF ScoreGT(score, best_score)
          THEN find_best_match_no_threshold(normalized_target, source_bones, i + 1,
                                            <<source_bone>>, score)
          ELSE find_best_match_no_threshold(normalized_target, source_bones, i + 1,
                                            best_match, best_score)

\* find_best_match_from with "score >= best_score" for "score > best_score"
RECURSIVE find_best_match_last_tie(_, _, _, _, _)
find_best_match_last_tie(normalized_target, source_bones, i, best_match, best_score) ==
  IF i > Len(source_bones) THEN best_match
  ELSE LET source_bone == source_bones[i]
           score == calculate_similarity(normalized_target,
                                         normalize_bone_name(source_bone))
       IN IF ScoreGE(score, best_score) /\ ScoreGE(score, MIN_SCORE)
          THEN find_best_match_last_tie(normalized_target, source_bones, i + 1,
                                        <<source_bone>>, score)
          ELSE find_best_match_last_tie(normalized_target, source_bones, i + 1,
                                        best_match, best_score)

\* the loop over source_bones, from index i on
RECURSIVE find_best_match_from(_, _, _, _, _)
find_best_match_from(normalized_target, source_bones, i, best_match, best_score) ==
  IF i > Len(source_bones) THEN best_match
  ELSE LET source_bone == source_bones[i]
           normalized_source == normalize_bone_name(source_bone)
           score == calculate_similarity(normalized_target, normalized_source)
       IN IF ScoreGT(score, best_score) /\ ScoreGE(score, MIN_SCORE)
          THEN find_best_match_from(normalized_target, source_bones, i + 1,
                                    <<source_bone>>, score)
          ELSE find_best_match_from(normalized_target, source_bones, i + 1,
                                    best_match, best_score)

find_best_match(target_bone, source_bones) ==
  find_best_match_from(normalize_bone_name(target_bone), source_bones, 1,
                       <<>>, <<0, 1>>)

\* auto_map_bones_from with the arguments of mappings.set exchanged
RECURSIVE auto_map_bones_swapped(_, _, _, _)
auto_map_bones_swapped(source_bone_names, target_bone_names, i, mappings) ==
  IF i > Len(target_bone_names) THEN mappings
  ELSE LET target_bone == target_bone_names[i]
           best_match == find_best_match(target_bone, source_bone_names)
       IN auto_map_bones_swapped(source_bone_names, target_bone_names, i + 1,
            IF best_match # <<>>
            THEN MapSet(mappings, best_match[1], target_bone)
            ELSE mappings)

\* the loop over target_bone_names, from index i on
RECURSIVE auto_map_bones_from(_, _, _, _)
auto_map_bones_from(source_bone_names, target_bone_names, i, mappings) ==
  IF i > Len(target_bone_names) THEN mappings
  ELSE LET target_bone == target_bone_names[i]
           best_match == find_best_match(target_bone, source_bone_names)
       IN auto_map_bones_from(source_bone_names, target_bone_names, i + 1,
            IF best_match # <<>>
            THEN MapSet(mappings, target_bone, best_match[1])
            ELSE mappings)

auto_map_bones(source_bone_names, target_bone_names) ==
  auto_map_bones_from(source_bone_names, target_bone_names, 1, EmptyMap)

(***************************************************************************)
(* MixamoMapper.                                                           *)
(***************************************************************************)
BONE_MAP ==
  [
    pelvis |-> "mixamorigHips",
    spine_01 |-> "mixamorigSpine",
    spine_02 |-> "mixamorigSpine1",
    spine_03 |-> "mixamorigSpine2",
    neck_01 |-> "mixamorigNeck",
    head |-> "mixamorigHead",
    head_leaf |-> "mixamorigHeadTop_End",
    clavicle_l |-> "mixamorigLeftShoulder",
    upperarm_l |-> "mixamorigLeftArm",
    lowerarm_l |-> "mixamorigLeftForeArm",
    hand_l |-> "mixamorigLeftHand",
    clavicle_r |-> "mixamorigRightShoulder",
    upperarm_r |-> "mixamorigRightArm",
    lowerarm_r |-> "mixamorigRightForeArm",
    hand_r |-> "mixamorigRightHand",
    thigh_l |-> "mixamorigLeftUpLeg",
    calf_l |-> "mixamorigLeftLeg",
    foot_l |-> "mixamorigLeftFoot",
    ball_l |-> "mixamorigLeftToeBase",
    ball_leaf_l |-> "mixamorigLeftToe_End",
    thigh_r |-> "mixamorigRightUpLeg",
    calf_r |-> "mixamorigRightLeg",
    foot_r |-> "mixamorigRightFoot",
    ball_r |-> "mixamorigRightToeBase",
    ball_leaf_r |-> "mixamorigRightToe_End",
    thumb_01_l |-> "mixamorigLeftHandThumb1",
    thumb_02_l |-> "mixamorigLeftHandThumb2",
    thumb_03_l |-> "mixamorigLeftHandThumb3",
    thumb_04_leaf_l |-> "mixamorigLeftHandThumb4",
    index_01_l |-> "mixamorigLeftHandIndex1",
    index_02_l |-> "mixamorigLeftHandIndex2",
    index_03_l |-> "mixamorigLeftHandIndex3",
    index_04_leaf_l |-> "mixamorigLeftHandIndex4",
    middle_01_l |-> "mixamorigLeftHandMiddle1",
    middle_02_l |-> "mixamorigLeftHandMiddle2",
    middle_03_l |-> "mixamorigLeftHandMiddle3",
    middle_04_leaf_l |-> "mixamorigLeftHandMiddle4",
    ring_01_l |-> "mixamorigLeftHandRing1",
    ring_02_l |-> "mixamorigLeftHandRing2",
    ring_03_l |-> "mixamorigLeftHandRing3",
    ring_04_leaf_l |-> "mixamorigLeftHandRing4",
    pinky_01_l |-> "mixamorigLeftHandPinky1",
    pinky_02_l |-> "mixamorigLeftHandPinky2",
    pinky_03_l |-> "mixamorigLeftHandPinky3",
    pinky_04_leaf_l |-> "mixamorigLeftHandPinky4",
    thumb_01_r |-> "mixamorigRightHandThumb1",
    thumb_02_r |-> "mixamorigRightHandThumb2",
    thumb_03_r |-> "mixamorigRightHandThumb3",
    thumb_04_leaf_r |-> "mixamorigRightHandThumb4",
    index_01_r |-> "mixamorigRightHandIndex1",
    index_02_r |-> "mixamorigRightHandIndex2",
    index_03_r |-> "mixamorigRightHandIndex3",
    index_04_leaf_r |-> "mixamorigRightHandIndex4",
    middle_01_r |-> "mixamorigRightHandMiddle1",
    middle_02_r |-> "mixamorigRightHandMiddle2",
    middle_03_r |-> "mixamorigRightHandMiddle3",
    middle_04_leaf_r |-> "mixamorigRightHandMiddle4",
    ring_01_r |-> "mixamorigRightHandRing1",
    ring_02_r |-> "mixamorigRightHandRing2",
    ring_03_r |-> "mixamorigRightHandRing3",
    ring_04_leaf_r |-> "mixamorigRightHandRing4",
    pinky_01_r |-> "mixamorigRightHandPinky1",
    pinky_02_r |-> "mixamorigRightHandPinky2",
    pinky_03_r |-> "mixamorigRightHandPinky3",
    pinky_04_leaf_r |-> "mixamorigRightHandPinky4"
  ]

\* BONE_MAP is an object literal: a name that is no key of its own is looked
\* up in Object.prototype
OBJECT_PROTOTYPE_KEYS ==
  {"constructor", "hasOwnProperty", "isPrototypeOf", "propertyIsEnumerable",
   "toLocaleString", "toString", "valueOf", "__proto__",
   "__defineGetter__", "__defineSetter__", "__lookupGetter__", "__lookupSetter__"}

\* this.BONE_MAP[name]: a string of the table, an inherited member, or undefined
bone_map_lookup(name) ==
  IF name \in DOMAIN BONE_MAP THEN [type |-> "string", value |-> BONE_MAP[name]]
  ELSE IF name \in OBJECT_PROTOTYPE_KEYS THEN [type |-> "inherited", value |-> name]
  ELSE [type |-> "undefined", value |-> ""]

\* tb.name === expected_mixamo_name
strict_equals_name(name, expected) == expected.type = "string" /\ expected.value = name

\* target_bones.find(tb => tb.name === expected_mixamo_name): <<>> for undefined
find_target_bone(target_bones, expected) ==
  LET hits == {i \in DOMAIN target_bones : strict_equals_name(target_bones[i].name, expected)}
  IN IF hits = {} THEN <<>>
     ELSE <<target_bones[CHOOSE i \in hits : \A k \in hits : i <= k]>>

\* map_mixamo_bones_from without the search of the target collection: the
\* expected name is recorded whether or not a target bone carries it
RECURSIVE map_mixamo_bones_unchecked(_, _, _, _)
map_mixamo_bones_unchecked(source_bones, target_bones, i, mappings) ==
  IF i > Len(source_bones) THEN mappings
  ELSE LET source_bone == source_bones[i]
           expected_mixamo_name == bone_map_lookup(source_bone.name)
       IN map_mixamo_bones_unchecked(source_bones, target_bones, i + 1,
            IF expected_mixamo_name.type = "string"
            THEN MapSet(mappings, expected_mixamo_name.value, source_bone.name)
            ELSE mappings)

\* the loop over source_bones, from index i on
RECURSIVE map_mixamo_bones_from(_, _, _, _)
map_mixamo_bones_from(source_bones, target_bones, i, mappings) ==
  IF i > Len(source_bones) THEN mappings
  ELSE LET source_bone == source_bones[i]
           expected_mixamo_name == bone_map_lookup(source_bone.name)
           target_bone == IF expected_mixamo_name.type # "undefined"
                          THEN find_target_bone(target_bones, expected_mixamo_name)
                          ELSE <<>>
       IN map_mixamo_bones_from(source_bones, target_bones, i + 1,
            IF target_bone # <<>>
            THEN MapSet(mappings, target_bone[1].name, source_bone.name)
            ELSE mappings)

map_mixamo_bones(source_bones, target_bones) ==
  map_mixamo_bones_from(source_bones, target_bones, 1, EmptyMap)

(***************************************************************************)
(* Inputs of the normalizer: concatenations of at most MaxTokens tokens.   *)
(***************************************************************************)
NameTokens ==
  { <<"r","i","g","_">>,
    <<"b","o","n","e","_">>,
    <<"j","n","t","_">>,
    <<"m","i","x","a","m","o","r","i","g">>,
    <<"l","e","f","t">>,
    <<"R","i","g","h","t">>,
    <<"l">>, <<"r">>, <<"L">>, <<"x">>,
    <<"_">>, <<"-">>, <<":">> }

RECURSIVE Concats(_, _)
Concats(tokens, k) ==
  IF k = 0 THEN {<<>>}
  ELSE LET shorter == Concats(tokens, k - 1)
       IN shorter \cup {p \o t : p \in shorter, t \in tokens}

NormalizeInputs == Concats(NameTokens, MaxTokens)

(***************************************************************************)
(* The calls, as a state machine: a call is pending (pc = "call") and then *)
(* has returned (pc = "done") with its result in ret.                      *)
(***************************************************************************)
InitNormalize ==
  /\ fn = "normalize_bone_name"
  /\ args \in [bone_name : NormalizeInputs]
  /\ ret = <<>>
  /\ pc = "call"

Call_normalize_bone_name ==
  /\ pc = "call"
  /\ fn = "normalize_bone_name"
  /\ ret' = normalize_bone_name(args.bone_name)
  /\ pc' = "done"
  /\ UNCHANGED <<fn, args>>

NextNormalize == Call_normalize_bone_name

SpecNormalize == InitNormalize /\ [][NextNormalize]_vars

(***************************************************************************)
(* Inputs of the scorer: every string over ScoreAlphabet of length at most *)
(* MaxLen, and the pairs the unit checks name.                             *)
(***************************************************************************)
ScoreAlphabet == {<<"a">>, <<"b">>}

Strings == Concats(ScoreAlphabet, MaxLen)

kitten == <<"k","i","t","t","e","n">>

sitting == <<"s","i","t","t","i","n","g">>

ScoreInputs ==
  (Strings \X Strings) \cup {<<kitten, sitting>>, <<sitting, kitten>>}

InitScore ==
  /\ fn \in {"calculate_similarity", "levenshtein_distance"}
  /\ \E p \in ScoreInputs : args = [name1 |-> p[1], name2 |-> p[2]]
  /\ ret = <<>>
  /\ pc = "call"

Call_calculate_similarity ==
  /\ pc = "call"
  /\ fn = "calculate_similarity"
  /\ ret' = calculate_similarity(args.name1, args.name2)
  /\ pc' = "done"
  /\ UNCHANGED <<fn, args>>

Call_levenshtein_distance ==
  /\ pc = "call"
  /\ fn = "levenshtein_distance"
  /\ ret' = levenshtein_distance(args.name1, args.name2)
  /\ pc' = "done"
  /\ UNCHANGED <<fn, args>>

NextScore == Call_calculate_similarity \/ Call_levenshtein_distance

SpecScore == InitScore /\ [][NextScore]_vars

(***************************************************************************)
(* Inputs of the mappers: bone lists of at most MaxSourceBones and         *)
(* MaxTargetBones names, repetitions included.                             *)
(***************************************************************************)
SeqsUpTo(S, n) == UNION {[1..k -> S] : k \in 0..n}

SourceBoneNames ==
  { <<"H","a","n","d","_","L">>,
    <<"h","a","n","d",".","l","e","f","t">>,
    <<"h","a","n","d">>,
    <<"h","a","n","x","y">>,
    <<"F","o","o","t">>,
    <<"r","i","g","_">> }

TargetBoneNames ==
  { <<"h","a","n","d","_","l","e","f","t">>,
    <<"h","a","n","d">>,
    <<"E","l","b","o","w">> }

MixamoSourceNames == {"pelvis", "head", "hand_l", "tail", "constructor"}

MixamoTargetNames == {"mixamorigHips", "mixamorigHead", "Hips", "pelvis"}

InitMappers ==
  /\ pc = "call"
  /\ ret = <<>>
  /\ \/ /\ fn = "auto_map_bones"
        /\ args \in [source_bone_names : SeqsUpTo(SourceBoneNames, MaxSourceBones),
                     target_bone_names : SeqsUpTo(TargetBoneNames, MaxTargetBones)]
     \/ /\ fn = "map_mixamo_bones"
        /\ args \in [source_bones : SeqsUpTo([name : MixamoSourceNames], MaxSourceBones),
                     target_bones : SeqsUpTo([name : MixamoTargetNames], MaxTargetBones)]

Call_auto_map_bones ==
  /\ pc = "call"
  /\ fn = "auto_map_bones"
  /\ ret' = auto_map_bones(args.source_bone_names, args.target_bone_names)
  /\ pc' = "done"
  /\ UNCHANGED <<fn, args>>

Call_map_mixamo_bones ==
  /\ pc = "call"
  /\ fn = "map_mixamo_bones"
  /\ ret' = map_mixamo_bones(args.source_bones, args.target_bones)
  /\ pc' = "done"
  /\ UNCHANGED <<fn, args>>

NextMappers == Call_auto_map_bones \/ Call_map_mixamo_bones

SpecMappers == InitMappers /\ [][NextMappers]_vars

(***************************************************************************)
(* All the calls together.                                                 *)
(***************************************************************************)
Init == InitNormalize \/ InitScore \/ InitMappers

Next ==
  \/ Call_normalize_bone_name
  \/ Call_calculate_similarity
  \/ Call_levenshtein_distance
  \/ Call_auto_map_bones
  \/ Call_map_mixamo_bones

Spec == Init /\ [][Next]_vars

(***************************************************************************)
(* Properties of normalize_bone_name (SpecNormalize).                      *)
(***************************************************************************)
NormalizeDone == pc = "done" /\ fn = "normalize_bone_name"

\* s begins with one of the rig-prefix tokens
HasCommonPrefix(s) == \E i \in DOMAIN COMMON_PREFIXES : StartsWith(s, COMMON_PREFIXES[i])

\* the name as statement 3 of normalize_bone_name receives it
BeforePrefixStrip(bone_name) == replace_separators(toLowerCase(bone_name))

\* C5, as stated: normalization is idempotent,
\* normalize_bone_name(normalize_bone_name(x)) = normalize_bone_name(x) for
\* every bone name x, names with several rig prefixes in a row included.
C5_IdempotentAlways ==
  NormalizeDone => normalize_bone_name(ret) = ret

\* C5, amended: normalizing a normalized name changes it exactly when the
\* normalized name still begins with a rig-prefix token (the name carried
\* more than one prefix and only the first was stripped); for every other
\* name normalization is idempotent.
C5_IdempotentUnlessPrefixed ==
  NormalizeDone => (normalize_bone_name(ret) = ret <=> ~HasCommonPrefix(ret))

\* "rig_bone_x" has been normalized to "bone_x", which normalizes to "x"
C5_Witness ==
  /\ NormalizeDone
  /\ args.bone_name = <<"r","i","g","_","b","o","n","e","_","x">>
  /\ ret = <<"b","o","n","e","_","x">>
  /\ normalize_bone_name(ret) = <<"x">>

\* C6: normalize_bone_name returns the empty string only for the empty
\* input; every non-empty bone name has a non-empty normalized name.
C6_EmptyOnlyForEmpty ==
  NormalizeDone => (ret = <<>> => args.bone_name = <<>>)

\* C7: statement 3 removes the whole rig-prefix token the name begins with:
\* for a name beginning with "mixamorig_" all ten characters, underscore
\* included; for a name beginning with "mixamorig" and no underscore exactly
\* "mixamorig"; for "rig_", "bone_", "jnt_", "joint_" that token. The
\* result is what the left/right statements make of the remainder.
C7_StripsWholeToken ==
  NormalizeDone =>
    LET pre == BeforePrefixStrip(args.bone_name)
        mixamorig == COMMON_PREFIXES[1]
        mixamorig_ == COMMON_PREFIXES[2]
    IN /\ StartsWith(pre, mixamorig_)
            => ret = standardize_left_right(Drop(pre, Len(mixamorig_)))
       /\ StartsWith(pre, mixamorig) /\ ~StartsWith(pre, mixamorig_)
            => ret = standardize_left_right(Drop(pre, Len(mixamorig)))
       /\ \A i \in DOMAIN COMMON_PREFIXES \ {1, 2} :
            StartsWith(pre, COMMON_PREFIXES[i])
              => ret = standardize_left_right(Drop(pre, Len(COMMON_PREFIXES[i])))

(***************************************************************************)
(* Properties of calculate_similarity and levenshtein_distance (SpecScore).*)
(***************************************************************************)
SimilarityDone == pc = "done" /\ fn = "calculate_similarity"

LevenshteinDone == pc = "done" /\ fn = "levenshtein_distance"

\* The edit distance by its definition, with no matrix: the strings one
\* insertion, deletion or substitution away from s, over the characters in
\* chars and no longer than maxlen (a shortest edit sequence from a to b can
\* substitute first, delete next and insert last, so it needs no string
\* longer than the longer of a and b and no character foreign to them).
OneEdit(s, chars, maxlen) ==
  LET deletions == {SubSeq(s, 1, i - 1) \o Drop(s, i) : i \in 1..Len(s)}
      substitutions ==
        {SubSeq(s, 1, i - 1) \o <<c>> \o Drop(s, i) : i \in 1..Len(s), c \in chars}
      insertions ==
        IF Len(s) >= maxlen THEN {}
        ELSE {SubSeq(s, 1, i) \o <<c>> \o Drop(s, i) : i \in 0..Len(s), c \in chars}
  IN deletions \cup substitutions \cup insertions

\* the strings at most k edits away from s
RECURSIVE Ball(_, _, _, _)
Ball(s, k, chars, maxlen) ==
  IF k = 0 THEN {s}
  ELSE LET inner == Ball(s, k - 1, chars, maxlen)
       IN inner \cup UNION {OneEdit(u, chars, maxlen) : u \in inner}

\* a and b are at most k edits apart: some string is within ceil(k/2) edits
\* of a and within floor(k/2) edits of b (every edit can be undone by one edit)
WithinEdits(a, b, k) ==
  LET chars == Range(a) \cup Range(b)
      maxlen == Max(Len(a), Len(b))
  IN Ball(a, k - (k \div 2), chars, maxlen) \cap Ball(b, k \div 2, chars, maxlen) # {}

\* the minimum number of single-character edits that transform a into b
MinEdits(a, b) ==
  CHOOSE k \in 0..Max(Len(a), Len(b)) :
    /\ WithinEdits(a, b, k)
    /\ \A m \in 0..(k - 1) : ~WithinEdits(a, b, m)

\* C8: similarity is symmetric, calculate_similarity(a, b) =
\* calculate_similarity(b, a), in each of the three tiers.
C8_Symmetric ==
  SimilarityDone => ret = calculate_similarity(args.name2, args.name1)

\* a pair of different lengths scored by the edit-distance tier, and the
\* score of the exchanged pair is the same
C8_Witness ==
  /\ SimilarityDone
  /\ similarity_tier(args.name1, args.name2) = "levenshtein"
  /\ Len(args.name1) < Len(args.name2)
  /\ ScoreGT(ret, <<0, 1>>)
  /\ ret = calculate_similarity(args.name2, args.name1)

\* C9: for every pair of strings, empty ones included, the score is a
\* defined number in [0,1]: no division by a maximum length of 0 happens
\* (two empty strings are an exact match), the containment tier yields a
\* value in [0.8, 1.0] and the edit-distance tier 1 - distance/max_length
\* in [0,1].
C9_ScoreInUnitInterval ==
  SimilarityDone =>
    LET tier == similarity_tier(args.name1, args.name2)
        max_length == Max(Len(args.name1), Len(args.name2))
    IN /\ ~IsNaN(ret)
       /\ ScoreGE(ret, <<0, 1>>)
       /\ ScoreGE(<<1, 1>>, ret)
       /\ tier = "exact" => ScoreEQ(ret, <<1, 1>>)
       /\ tier = "contains" => max_length > 0 /\ ScoreGE(ret, <<4, 5>>)
       /\ tier = "levenshtein" =>
            /\ max_length > 0
            /\ ScoreEQ(ret, <<max_length - levenshtein_distance(args.name1, args.name2),
                              max_length>>)

\* two empty strings have been scored: an exact match, score 1
C9_Witness ==
  /\ SimilarityDone
  /\ args.name1 = <<>>
  /\ args.name2 = <<>>
  /\ ret = <<1, 1>>

\* C10: levenshtein_distance(a, b) is the minimum number of single-character
\* insertions, deletions and substitutions that transform a into b, empty
\* strings included: distance(a, "") = len(a), distance("", b) = len(b),
\* distance("kitten", "sitting") = 3, distance("", "") = 0, distance("a", "") = 1.
C10_MinimumEdits ==
  LevenshteinDone =>
    /\ ret = MinEdits(args.name1, args.name2)
    /\ args.name2 = <<>> => ret = Len(args.name1)
    /\ args.name1 = <<>> => ret = Len(args.name2)
    /\ args.name1 = kitten /\ args.name2 = sitting => ret = 3

\* the distance of "kitten" and "sitting" has been computed, and is 3
C10_Witness ==
  /\ LevenshteinDone
  /\ args.name1 = kitten
  /\ args.name2 = sitting
  /\ ret = 3

(***************************************************************************)
(* Properties of the two mappers (SpecMappers).                            *)
(***************************************************************************)
AutoMapDone == pc = "done" /\ fn = "auto_map_bones"

MixamoDone == pc = "done" /\ fn = "map_mixamo_bones"

\* the score of target name t against source name s, as find_best_match takes it
Score(t, s) == calculate_similarity(normalize_bone_name(t), normalize_bone_name(s))

\* C1: every entry (t -> s) of the result of auto_map_bones has
\* calculate_similarity(normalize_bone_name(t), normalize_bone_name(s)) >= 0.6.
C1_ThresholdEnforced ==
  AutoMapDone => \A e \in Entries(ret) : ScoreGE(Score(e.key, e.value), MIN_SCORE)

\* an entry whose score is exactly 0.6 has been produced, and a target name
\* whose only candidates score above 0 and below 0.6 has been left out
C1_Witness ==
  /\ AutoMapDone
  /\ \E e \in Entries(ret) : ScoreEQ(Score(e.key, e.value), MIN_SCORE)
  /\ \E t \in Range(args.target_bone_names) :
       /\ t \notin MapKeys(ret)
       /\ \A s \in Range(args.source_bone_names) : ScoreGT(Score(t, s), <<0, 1>>)

\* C2: for both mappers every key of the returned mapping is a name of the
\* supplied target collection and every value a name of the supplied source
\* collection.
C2_Soundness ==
  /\ AutoMapDone =>
       \A e \in Entries(ret) : /\ e.key \in Range(args.target_bone_names)
                               /\ e.value \in Range(args.source_bone_names)
  /\ MixamoDone =>
       \A e \in Entries(ret) : /\ \E tb \in Range(args.target_bones) : tb.name = e.key
                               /\ \E sb \in Range(args.source_bones) : sb.name = e.value

\* auto_map_bones has returned a mapping of two entries while one name is
\* in both collections
C2_Witness ==
  /\ AutoMapDone
  /\ Len(ret) = 2
  /\ Range(args.target_bone_names) \cap Range(args.source_bone_names) # {}
  /\ \E e \in Entries(ret) : e.key # e.value

\* the scores of target name t against the source list, in list order
RECURSIVE ScoresFrom(_, _, _)
ScoresFrom(t, sources, i) ==
  IF i > Len(sources) THEN <<>>
  ELSE <<Score(t, sources[i])>> \o ScoresFrom(t, sources, i + 1)

\* what C3 says of target name t, scores being ScoresFrom(t, sources, 1)
FirstBestMatch(t, sources, scores, result) ==
  LET best == {i \in DOMAIN sources :
                 \A k \in DOMAIN sources : ScoreGE(scores[i], scores[k])}
      accepted == {i \in best : ScoreGE(scores[i], MIN_SCORE)}
  IN IF accepted # {}
     THEN /\ t \in MapKeys(result)
          /\ MapGet(result, t) = sources[CHOOSE i \in best : \A k \in best : i <= k]
     ELSE t \notin MapKeys(result)

\* C3: auto_map_bones maps each target name t to the source name at the
\* smallest index among those whose score against t is the maximum over the
\* source list, provided that maximum is >= 0.6 (of two source names tied on
\* the maximum the earlier is kept); when no source name scores >= 0.6, t is
\* absent from the result.
C3_FirstBestMatch ==
  AutoMapDone =>
    \A t \in Range(args.target_bone_names) :
      \E scores \in {ScoresFrom(t, args.source_bone_names, 1)} :
        FirstBestMatch(t, args.source_bone_names, scores, ret)

\* two different source names tie on the maximum score for a target, the
\* earlier one is the one mapped; and another target of the call has no
\* source name scoring >= 0.6 and is absent
C3_Witness ==
  /\ AutoMapDone
  /\ Len(args.source_bone_names) = 2
  /\ args.source_bone_names[1] # args.source_bone_names[2]
  /\ \E t \in MapKeys(ret) :
       /\ ScoreEQ(Score(t, args.source_bone_names[1]), Score(t, args.source_bone_names[2]))
       /\ MapGet(ret, t) = args.source_bone_names[1]
  /\ \E t \in Range(args.target_bone_names) : t \notin MapKeys(ret)

\* C4: map_mixamo_bones returns exactly the pairs (BONE_MAP[s] -> s) for the
\* source bones s whose name is a key of BONE_MAP and whose expected target
\* name BONE_MAP[s] is, by exact string equality, the name of a bone of the
\* target collection; every other source bone contributes no entry.
C4_ExactTableLookup ==
  MixamoDone =>
    LET mapped == {sb \in Range(args.source_bones) :
                     /\ sb.name \in DOMAIN BONE_MAP
                     /\ \E tb \in Range(args.target_bones) : tb.name = BONE_MAP[sb.name]}
    IN /\ Entries(ret) = {[key |-> BONE_MAP[sb.name], value |-> sb.name] : sb \in mapped}
       /\ Cardinality(MapKeys(ret)) = Len(ret)

\* "pelvis" is mapped because "mixamorigHips" is a target bone, "head" is
\* not because "mixamorigHead" is not
C4_Witness ==
  /\ MixamoDone
  /\ args.source_bones = <<[name |-> "head"], [name |-> "pelvis"]>>
  /\ "mixamorigHips" \in {tb.name : tb \in Range(args.target_bones)}
  /\ "mixamorigHead" \notin {tb.name : tb \in Range(args.target_bones)}
  /\ ret = <<[key |-> "mixamorigHips", value |-> "pelvis"]>>

====
